---------------------------- MODULE Spec2Model ----------------------------
(***************************************************************************)
(* A model of the grid simulation engine of atc: src/world.rs (World, its  *)
(* placement operations, the line rasterizer, the plane lifecycle and the  *)
(* per-tick outcome state machine) and src/plane.rs (Plane and its tick).  *)
(*                                                                         *)
(* The World is used as a library: any sequence of calls of its public     *)
(* operations is a behaviour.  A panic ends the process: no operation      *)
(* follows it.  HashMap iteration order is a nondeterministic choice of a  *)
(* permutation at each iteration.                                          *)
(***************************************************************************)
EXTENDS Integers, Sequences, FiniteSets, TLC

(***************************************************************************)
(* Bounds of the model.                                                    *)
(***************************************************************************)
\* World::new(WorldX, WorldY) of the simulation specification Spec.
WorldX ==
    3
WorldY ==
    4
\* World::new(RouteX, RouteY) of the rasterizer specification SpecRoute.
RouteX ==
    5
RouteY ==
    4
\* Exit offsets handed to place_exit range over 0..MaxWallPos.
MaxWallPos ==
    4
\* spawn_plane_at_exit and tick_planes calls in one behaviour of Spec.
MaxSpawns ==
    2
MaxTicks ==
    4
\* place_route_in_line calls in one behaviour of SpecRoute.
MaxRouteCalls ==
    1
\* Calls in one behaviour of SpecAuthor.
MaxAuthorCalls ==
    2
\* In SpecFuel and SpecPlane a plane is ticked until it has MaxFuelTicks ticks
\* (beyond the Jet's ceiling).
MaxFuelTicks ==
    122
\* spawn_plane_at_exit calls in one behaviour of SpecFuel.
MaxFuelPlanes ==
    1
\* SpecPriority starts with a plane that is at most MaxPriorityLead ticks
\* short of its fuel ceiling, and spawns at most MaxPriorityPlanes more planes.
MaxPriorityLead ==
    4
MaxPriorityPlanes ==
    1
\* next_plane_idx calls in one behaviour of SpecIds (beyond the 256 values of
\* the u8 counter).
MaxIdCalls ==
    260
\* spawn_plane_at_exit and tick_planes calls in one behaviour of SpecTraffic.
MaxTrafficSpawns ==
    2
MaxTrafficTicks ==
    3
\* spawn_plane_at_exit calls in one behaviour of SpecReuse (beyond the 25
\* letters of ORDER).
MaxReuseSpawns ==
    27

(***************************************************************************)
(* Program constants.                                                      *)
(***************************************************************************)
\* plane.rs:6
START_HEIGHT ==
    7
\* plane.rs:71, plane.rs:72: the fuel ceilings of out_of_fuel.
JetFuel ==
    120
SmallFuel ==
    50
\* world.rs:60: plane_counter is a u8.
U8Modulus ==
    256
\* builtin.rs:5, builtin.rs:6: the extent of the builtin level.
BuiltinX ==
    20
BuiltinY ==
    20
\* usize::MAX as far as the checker's integers reach; no value of the model
\* comes within MaxFuelTicks + MaxWallPos of it, so its exact width is never
\* observed except by the bitwise NOT of place_exit.
USIZE_MAX ==
    2147483647

(***************************************************************************)
(* The World (world.rs:54-61) and what the last call did.                  *)
(***************************************************************************)
VARIABLES
    x,              \* World.x: the width
    y,              \* World.y: the height
    tiles,          \* World.tiles: tiles[row][column]
    planes,         \* World.planes: HashMap<char, Plane>
    exits,          \* World.exits: HashMap<u8, Exit>
    plane_counter,  \* World.plane_counter: u8
    call,           \* the last call: <<operation, arguments...>>
    ret,            \* what the last call returned (or <<"Panic">>)
    advanced,       \* tick_planes: the planes after its advance loop
    ticked,         \* tick_planes: the keys Plane::tick was called on
    painted,        \* place_route_in_line: the cells painted, in order
    ncalls          \* how many calls of each operation were made

vars ==
    <<x, y, tiles, planes, exits, plane_counter,
      call, ret, advanced, ticked, painted, ncalls>>

(***************************************************************************)
(* Enumerations of world.rs.                                               *)
(***************************************************************************)
DirectionGrid ==
    {"Up", "Down", "Left", "Right"}

DirectionCardinal ==
    {"North", "East", "South", "West",
     "NorthEast", "NorthWest", "SouthEast", "SouthWest"}

PlaneKind ==
    {"Small", "Jet"}

\* WorldTile: Empty, Route, Airport(DirectionGrid, u8), Beacon(u8).
Empty ==
    <<"Empty">>
Route ==
    <<"Route">>
Airport(dir, idx) ==
    <<"Airport", dir, idx>>
Beacon(idx) ==
    <<"Beacon", idx>>

\* Result<_, Error>: Ok, or an Error of error.rs with its payload.
Ok ==
    <<"Ok">>
Err(kind, a, b) ==
    <<"Err", kind, a, b>>
\* panic!, todo!, an arithmetic overflow of a debug build, an index out of range.
Panic ==
    <<"Panic">>
IsOk(r) ==
    r[1] = "Ok"

Pos(px, py) ==
    [x |-> px, y |-> py]

Max(a, b) ==
    IF a > b THEN a ELSE b
Abs(a) ==
    IF a < 0 THEN -a ELSE a

(***************************************************************************)
(* Placement of tiles (world.rs:121-137).                                  *)
(***************************************************************************)
check_pos_bounds(w, h, pos) ==
    IF pos.x + 1 > w THEN Err("PosOutOfBounds", pos.x, w)
    ELSE IF pos.y + 1 > h THEN Err("PosOutOfBounds", pos.y, h)
    ELSE Ok

\* [tiles, ret]: the grid after place_tile(tile, pos) and its result.
place_tile(t, w, h, tile, pos) ==
    LET chk == check_pos_bounds(w, h, pos) IN
    IF ~IsOk(chk) THEN [tiles |-> t, ret |-> chk]
    ELSE [tiles |-> [t EXCEPT ![pos.y][pos.x] = tile], ret |-> Ok]

(***************************************************************************)
(* The line rasterizer (world.rs:140-190).                                 *)
(***************************************************************************)
\* route_setup without `std::mem::swap(&mut dx, &mut dy)`: a steep line is
\* walked for the extent of its minor axis only.
route_setup_unswapped(a, b) ==
    LET dx0 == b.x - a.x
        dy0 == b.y - a.y
        sx == IF dx0 > 0 THEN 1 ELSE -1
        sy == IF dy0 > 0 THEN 1 ELSE -1
        adx == Abs(dx0)
        ady == Abs(dy0)
    IN IF adx > ady
       THEN [a |-> a, dx |-> adx, dy |-> ady, xx |-> sx, xy |-> 0, yx |-> 0, yy |-> sy]
       ELSE [a |-> a, dx |-> adx, dy |-> ady, xx |-> 0, xy |-> sy, yx |-> sx, yy |-> 0]

\* route_setup with the sign of dx used for both axes.
route_setup_one_sign(a, b) ==
    LET dx0 == b.x - a.x
        dy0 == b.y - a.y
        sx == IF dx0 > 0 THEN 1 ELSE -1
        adx == Abs(dx0)
        ady == Abs(dy0)
    IN IF adx > ady
       THEN [a |-> a, dx |-> adx, dy |-> ady, xx |-> sx, xy |-> 0, yx |-> 0, yy |-> sx]
       ELSE [a |-> a, dx |-> ady, dy |-> adx, xx |-> 0, xy |-> sx, yx |-> sx, yy |-> 0]

\* world.rs:151-171: the step signs, the major/minor extents after the axis
\* swap, and the coefficients (xx, xy, yx, yy).
route_setup(a, b) ==
    LET dx0 == b.x - a.x
        dy0 == b.y - a.y
        sx == IF dx0 > 0 THEN 1 ELSE -1
        sy == IF dy0 > 0 THEN 1 ELSE -1
        adx == Abs(dx0)
        ady == Abs(dy0)
    IN IF adx > ady
       THEN [a |-> a, dx |-> adx, dy |-> ady, xx |-> sx, xy |-> 0, yx |-> 0, yy |-> sy]
       ELSE [a |-> a, dx |-> ady, dy |-> adx, xx |-> 0, xy |-> sy, yx |-> sx, yy |-> 0]

\* route_loop without `d -= 2 * dx`: once the accumulator is not negative the
\* minor offset grows on every iteration.
RECURSIVE route_loop_no_reset(_, _, _, _, _, _, _, _)
route_loop_no_reset(t, w, h, c, k, yv, d, acc) ==
    IF k > c.dx THEN [tiles |-> t, ret |-> Ok, painted |-> acc]
    ELSE
      LET px == c.a.x + k * c.xx + yv * c.yx
          py == c.a.y + k * c.xy + yv * c.yy
      IN IF px < 0 \/ py < 0
         THEN [tiles |-> t, ret |-> Err("PosFromSigned", px, py), painted |-> acc]
         ELSE
           LET r == place_tile(t, w, h, Route, Pos(px, py))
               up == d >= 0
           IN IF ~IsOk(r.ret)
              THEN [tiles |-> t, ret |-> r.ret, painted |-> acc]
              ELSE route_loop_no_reset(r.tiles, w, h, c, k + 1,
                                       IF up THEN yv + 1 ELSE yv,
                                       d + 2 * c.dy,
                                       Append(acc, Pos(px, py)))

\* world.rs:175-187: the iteration k of `for x in 0..dx + 1`, with the minor
\* offset yv and the error accumulator d; acc collects the painted cells.
RECURSIVE route_loop(_, _, _, _, _, _, _, _)
route_loop(t, w, h, c, k, yv, d, acc) ==
    IF k > c.dx THEN [tiles |-> t, ret |-> Ok, painted |-> acc]
    ELSE
      LET px == c.a.x + k * c.xx + yv * c.yx
          py == c.a.y + k * c.xy + yv * c.yy
      IN IF px < 0 \/ py < 0
         THEN [tiles |-> t, ret |-> Err("PosFromSigned", px, py), painted |-> acc]
         ELSE
           LET r == place_tile(t, w, h, Route, Pos(px, py))
               up == d >= 0
           IN IF ~IsOk(r.ret)
              THEN [tiles |-> t, ret |-> r.ret, painted |-> acc]
              ELSE route_loop(r.tiles, w, h, c, k + 1,
                              IF up THEN yv + 1 ELSE yv,
                              (IF up THEN d - 2 * c.dx ELSE d) + 2 * c.dy,
                              Append(acc, Pos(px, py)))

\* place_route_in_line without `self.check_pos_bounds(b)?`.
place_route_in_line_unchecked_b(t, w, h, a, b) ==
    LET ca == check_pos_bounds(w, h, a)
    IN IF ~IsOk(ca) THEN [tiles |-> t, ret |-> ca, painted |-> <<>>]
       ELSE route_loop(t, w, h, route_setup(a, b), 0, 0,
                       2 * route_setup(a, b).dy - route_setup(a, b).dx, <<>>)

\* [tiles, ret, painted] of place_route_in_line(a, b).
place_route_in_line(t, w, h, a, b) ==
    LET ca == check_pos_bounds(w, h, a)
        cb == check_pos_bounds(w, h, b)
    IN IF ~IsOk(ca) THEN [tiles |-> t, ret |-> ca, painted |-> <<>>]
       ELSE IF ~IsOk(cb) THEN [tiles |-> t, ret |-> cb, painted |-> <<>>]
       ELSE LET c == route_setup(a, b)
            IN route_loop(t, w, h, c, 0, 0, 2 * c.dy - c.dx, <<>>)


(***************************************************************************)
(* Plane (plane.rs).                                                       *)
(***************************************************************************)
\* world.rs:216-219: the 25 letters of next_plane_idx, and their capitals.
ORDER ==
    <<"a", "b", "c", "d", "e", "f", "g", "h", "i", "j", "k", "l", "m",
      "n", "p", "q", "r", "s", "t", "u", "v", "w", "x", "y", "z">>
UPPER ==
    <<"A", "B", "C", "D", "E", "F", "G", "H", "I", "J", "K", "L", "M",
      "N", "P", "Q", "R", "S", "T", "U", "V", "W", "X", "Y", "Z">>

\* char::to_ascii_uppercase and char::to_ascii_lowercase on those letters.
to_ascii_uppercase(c) ==
    IF \E i \in 1..Len(ORDER) : ORDER[i] = c
    THEN UPPER[CHOOSE i \in 1..Len(ORDER) : ORDER[i] = c]
    ELSE c
to_ascii_lowercase(c) ==
    IF \E i \in 1..Len(UPPER) : UPPER[i] = c
    THEN ORDER[CHOOSE i \in 1..Len(UPPER) : UPPER[i] = c]
    ELSE c

\* Destination: Exit(u8) or Airport(u8).
DestExit(idx) ==
    <<"Exit", idx>>
DestAirport(idx) ==
    <<"Airport", idx>>

\* Plane::new that puts the plane on the ground (height 0).
Plane_new_grounded(pos, direction, kind, id, destination) ==
    [pos |-> pos,
     height |-> 0,
     direction |-> direction,
     kind |-> kind,
     id |-> IF kind = "Small" THEN to_ascii_uppercase(id) ELSE to_ascii_lowercase(id),
     ticks |-> 0,
     destination |-> destination,
     just_spawned |-> TRUE]

\* plane.rs:28-48
Plane_new(pos, direction, kind, id, destination) ==
    [pos |-> pos,
     height |-> START_HEIGHT,
     direction |-> direction,
     kind |-> kind,
     id |-> IF kind = "Small" THEN to_ascii_uppercase(id) ELSE to_ascii_lowercase(id),
     ticks |-> 0,
     destination |-> destination,
     just_spawned |-> TRUE]

\* out_of_fuel with `>` for `>=`: the report comes one tick late.
out_of_fuel_late(p) ==
    p.ticks > (IF p.kind = "Jet" THEN JetFuel ELSE SmallFuel)

\* plane.rs:68-74
out_of_fuel(p) ==
    p.ticks >= (IF p.kind = "Jet" THEN JetFuel ELSE SmallFuel)

\* plane.rs:109-116
moves_this_tick(p) ==
    p.ticks % (IF p.kind = "Jet" THEN 1 ELSE 2) = 0

\* usize::checked_sub and usize::checked_add: <<>> is None, <<v>> is Some(v).
checked_sub(a, b) ==
    IF a - b < 0 THEN <<>> ELSE <<a - b>>
checked_add(a, b) ==
    IF a + b > USIZE_MAX THEN <<>> ELSE <<a + b>>

\* One statement `p.pos.y = <checked>?` of do_stuff: r is [plane, ok]; once a
\* `?` has returned None nothing more is assigned.
assign_y(r, v) ==
    IF ~r.ok THEN r
    ELSE IF v = <<>> THEN [plane |-> r.plane, ok |-> FALSE]
    ELSE [plane |-> [r.plane EXCEPT !.pos.y = v[1]], ok |-> TRUE]
assign_x(r, v) ==
    IF ~r.ok THEN r
    ELSE IF v = <<>> THEN [plane |-> r.plane, ok |-> FALSE]
    ELSE [plane |-> [r.plane EXCEPT !.pos.x = v[1]], ok |-> TRUE]

\* plane.rs:76-101: the y ordinate is assigned before the x ordinate is checked.
do_stuff(p) ==
    LET r0 == [plane |-> p, ok |-> TRUE]
        dir == p.direction
        ym == assign_y(r0, checked_sub(p.pos.y, 1))
        yp == assign_y(r0, checked_add(p.pos.y, 1))
    IN CASE dir = "North" -> ym
         [] dir = "NorthEast" -> assign_x(ym, checked_add(p.pos.x, 1))
         [] dir = "NorthWest" -> assign_x(ym, checked_sub(p.pos.x, 1))
         [] dir = "South" -> yp
         [] dir = "SouthEast" -> assign_x(yp, checked_add(p.pos.x, 1))
         [] dir = "SouthWest" -> assign_x(yp, checked_sub(p.pos.x, 1))
         [] dir = "West" -> assign_x(r0, checked_sub(p.pos.x, 1))
         [] dir = "East" -> assign_x(r0, checked_add(p.pos.x, 1))

\* plane.rs:75-107: [plane, ret].
next_pos(p) ==
    LET r == do_stuff(p) IN
    [plane |-> r.plane,
     ret |-> IF r.ok THEN Ok ELSE Err("PlaneNextPosBad", r.plane.id, 0)]

\* plane.rs:62-66: the grace flag is cleared on the second tick.
tick_grace(p) ==
    IF p.ticks = 2 THEN [p EXCEPT !.just_spawned = FALSE] ELSE p

\* plane.rs:54-66 with the tick counted: [plane, ok]; ok = FALSE is Err(()).
\* The result of next_pos is dropped (plane.rs:59).
tick_counted(p) ==
    IF out_of_fuel(p) THEN [plane |-> p, ok |-> FALSE]
    ELSE [plane |-> tick_grace(IF moves_this_tick(p) THEN next_pos(p).plane ELSE p),
          ok |-> TRUE]

\* plane.rs:51-67
tick(p) ==
    tick_counted([p EXCEPT !.ticks = @ + 1])

(***************************************************************************)
(* World: exits and spawning (world.rs:90-119, 215-251).                   *)
(***************************************************************************)
EmptyMap ==
    [k \in {} |-> k]

\* m with key k mapped to v (HashMap::insert) and with key k dropped
\* (HashMap::remove; dropping an absent key changes nothing).
\* MapInsert_keep_first leaves a key that is present as it is.
MapInsert_keep_first(m, k, v) ==
    [j \in DOMAIN m \cup {k} |-> IF j \in DOMAIN m THEN m[j] ELSE v]
MapInsert(m, k, v) ==
    [j \in DOMAIN m \cup {k} |-> IF j = k THEN v ELSE m[j]]
MapRemove(m, k) ==
    [j \in DOMAIN m \ {k} |-> m[j]]

\* `!wall_pos` on a usize is the bitwise complement.
BitNot(n) ==
    USIZE_MAX - n

\* world.rs:97-108: `!wall_pos < self.y` parses as `(!wall_pos) < self.y`, and
\* both pairs of walls are compared with the extent written in the source.
place_exit_check(w, h, where_on_wall, wall_pos) ==
    IF where_on_wall \in {"Up", "Down"}
    THEN (IF BitNot(wall_pos) < h THEN Err("ExitPosOutOfBounds", wall_pos, h) ELSE Ok)
    ELSE (IF BitNot(wall_pos) < w THEN Err("ExitPosOutOfBounds", wall_pos, w) ELSE Ok)

\* world.rs:90-119: [exits, ret].
place_exit(ex, w, h, where_on_wall, plane_out_direction, wall_pos, idx) ==
    LET chk == place_exit_check(w, h, where_on_wall, wall_pos) IN
    IF ~IsOk(chk) THEN [exits |-> ex, ret |-> chk]
    ELSE [exits |-> MapInsert(ex, idx,
                       [wall_direction |-> where_on_wall,
                        plane_out_direction |-> plane_out_direction,
                        wall_pos |-> wall_pos]),
          ret |-> Ok]

\* opposite that hands the heading back unreversed.
opposite_same(d) ==
    d

\* world.rs:401-414
opposite(d) ==
    CASE d = "North" -> "South"
      [] d = "East" -> "West"
      [] d = "South" -> "North"
      [] d = "West" -> "East"
      [] d = "NorthEast" -> "SouthWest"
      [] d = "NorthWest" -> "SouthEast"
      [] d = "SouthEast" -> "NorthWest"
      [] d = "SouthWest" -> "NorthEast"

\* world.rs:215-223: the outcomes of next_plane_idx with the counter at pc.
\* `self.plane_counter += 1` on a u8 holding 255 panics in a build with
\* overflow checks and wraps to 0 in a build without: both are outcomes.
next_plane_idx(pc) ==
    LET out == ORDER[(pc % 25) + 1] IN
    IF pc + 1 < U8Modulus
    THEN {[out |-> out, plane_counter |-> pc + 1, panic |-> FALSE]}
    ELSE {[out |-> out, plane_counter |-> pc, panic |-> TRUE],
          [out |-> out, plane_counter |-> (pc + 1) % U8Modulus, panic |-> FALSE]}

\* world.rs:230-240: the spawn cell, chosen by the exit's plane_out_direction;
\* <<>> where the match arm is todo!().
spawn_pos(w, h, exit) ==
    CASE exit.plane_out_direction = "North" -> <<Pos(exit.wall_pos, 0)>>
      [] exit.plane_out_direction = "South" -> <<Pos(exit.wall_pos, h - 1)>>
      [] exit.plane_out_direction = "West" -> <<Pos(0, exit.wall_pos)>>
      [] exit.plane_out_direction = "East" -> <<Pos(w - 1, exit.wall_pos)>>
      [] OTHER -> <<>>

\* spawn_plane_at_exit that takes the next plane id before it looks the exit
\* up: a spawn on an unregistered exit uses up a letter.
spawn_plane_at_exit_id_first(ps, ex, pc, w, h, exit_id, kind) ==
    IF exit_id \notin DOMAIN ex
    THEN {[planes |-> ps, plane_counter |-> n.plane_counter,
           ret |-> IF n.panic THEN Panic ELSE Err("NoExitForID", exit_id, 0)]
          : n \in next_plane_idx(pc)}
    ELSE
      LET exit == ex[exit_id]
          pos == spawn_pos(w, h, exit)
      IN IF pos = <<>>
         THEN {[planes |-> ps, plane_counter |-> pc, ret |-> Panic]}
         ELSE {IF n.panic
               THEN [planes |-> ps, plane_counter |-> n.plane_counter, ret |-> Panic]
               ELSE [planes |-> MapInsert(ps, n.out,
                                  Plane_new(pos[1], opposite(exit.plane_out_direction),
                                            kind, n.out, DestExit(1))),
                     plane_counter |-> n.plane_counter,
                     ret |-> Ok]
               : n \in next_plane_idx(pc)}

\* world.rs:225-251: the outcomes [planes, plane_counter, ret] of
\* spawn_plane_at_exit(exit_id, kind).
spawn_plane_at_exit(ps, ex, pc, w, h, exit_id, kind) ==
    IF exit_id \notin DOMAIN ex
    THEN {[planes |-> ps, plane_counter |-> pc, ret |-> Err("NoExitForID", exit_id, 0)]}
    ELSE
      LET exit == ex[exit_id]
          pos == spawn_pos(w, h, exit)
      IN IF pos = <<>>
         THEN {[planes |-> ps, plane_counter |-> pc, ret |-> Panic]}
         ELSE {IF n.panic
               THEN [planes |-> ps, plane_counter |-> n.plane_counter, ret |-> Panic]
               ELSE [planes |-> MapInsert(ps, n.out,
                                  Plane_new(pos[1], opposite(exit.plane_out_direction),
                                            kind, n.out, DestExit(1))),
                     plane_counter |-> n.plane_counter,
                     ret |-> Ok]
               : n \in next_plane_idx(pc)}

(***************************************************************************)
(* World: the tick (world.rs:253-398).                                     *)
(***************************************************************************)
\* The orders in which a HashMap with key set S may be iterated.
Orders(S) ==
    {o \in [1..Cardinality(S) -> S] : \A i, j \in DOMAIN o : o[i] = o[j] => i = j}

\* State (world.rs:11-19).
Onging ==
    <<"Onging">>
PlaneNoFuel(plane) ==
    <<"PlaneNoFuel", plane>>
WrongExit(plane, eid) ==
    <<"WrongExit", plane, eid>>

\* world.rs:374-378: `for plane in self.planes.values_mut()` from the i-th key
\* of order on: [planes, failed, ticked]; failed is <<plane>> when a tick
\* returned Err(()), and the planes after it in the order were not ticked.
\* advance_ticked has r, the result of the tick of the i-th plane.
RECURSIVE advance(_, _, _, _)
RECURSIVE advance_ticked(_, _, _, _, _)
advance_ticked(ps, order, i, tk, r) ==
    IF ~r.ok
    THEN [planes |-> [ps EXCEPT ![order[i]] = r.plane], failed |-> <<r.plane>>,
          ticked |-> tk \cup {order[i]}]
    ELSE advance([ps EXCEPT ![order[i]] = r.plane], order, i + 1, tk \cup {order[i]})
advance(ps, order, i, tk) ==
    IF i > Len(order) THEN [planes |-> ps, failed |-> <<>>, ticked |-> tk]
    ELSE advance_ticked(ps, order, i, tk, tick(ps[order[i]]))

\* world.rs:261-284: the exits of wall_dir from the i-th of eorder on:
\* [planes, found]; found is <<plane, eid>> for Some((plane, eid)). The plane is
\* removed under the key plane.id, and the loop goes on after a removal.
RECURSIVE plane_exit_check_inner(_, _, _, _, _, _, _)
plane_exit_check_inner(ps, ex, eorder, i, plane, wall_dir, plane_pos) ==
    IF i > Len(eorder) THEN [planes |-> ps, found |-> <<>>]
    ELSE LET eid == eorder[i]
             exit == ex[eid]
         IN IF exit.wall_direction # wall_dir \/ exit.wall_pos # plane_pos
            THEN plane_exit_check_inner(ps, ex, eorder, i + 1, plane, wall_dir, plane_pos)
            ELSE IF plane.destination[1] = "Exit" /\ plane.destination[2] = eid
            THEN plane_exit_check_inner(MapRemove(ps, plane.id), ex, eorder, i + 1,
                                        plane, wall_dir, plane_pos)
            ELSE [planes |-> ps, found |-> <<plane, eid>>]

\* world.rs:296-322: the walls a plane is checked against, in the order of the
\* four `if`s, each with the offset handed to plane_exit_check_inner.
wall_checks(plane, w, h) ==
    SelectSeq(<< <<"Up", plane.pos.y = 0, plane.pos.x>>,
                 <<"Down", plane.pos.y = h, plane.pos.x>>,
                 <<"Left", plane.pos.x = 0, plane.pos.y>>,
                 <<"Right", plane.pos.x = w, plane.pos.y>> >>,
              LAMBDA c : c[2])

\* world.rs:296-322 for one plane: the checks from the j-th on.
RECURSIVE plane_wall_checks(_, _, _, _, _, _)
plane_wall_checks(ps, ex, eorder, plane, checks, j) ==
    IF j > Len(checks) THEN [planes |-> ps, found |-> <<>>]
    ELSE LET r == plane_exit_check_inner(ps, ex, eorder, 1, plane,
                                         checks[j][1], checks[j][3])
         IN IF r.found # <<>> THEN r
            ELSE plane_wall_checks(r.planes, ex, eorder, plane, checks, j + 1)

\* world.rs:289-325: `for (pid, plane) in self.planes.clone()` from the i-th key
\* of porder on; snapshot is the clone.
RECURSIVE planes_take_exits(_, _, _, _, _, _, _, _)
planes_take_exits(ps, snapshot, porder, i, ex, eorder, w, h) ==
    IF i > Len(porder) THEN [planes |-> ps, found |-> <<>>]
    ELSE LET plane == snapshot[porder[i]] IN
         IF plane.just_spawned
         THEN planes_take_exits(ps, snapshot, porder, i + 1, ex, eorder, w, h)
         ELSE LET r == plane_wall_checks(ps, ex, eorder, plane, wall_checks(plane, w, h), 1)
              IN IF r.found # <<>> THEN r
                 ELSE planes_take_exits(r.planes, snapshot, porder, i + 1, ex, eorder, w, h)

\* world.rs:513-522
DirectionCardinal_from(value) ==
    CASE value = "Up" -> "North"
      [] value = "Down" -> "South"
      [] value = "Left" -> "West"
      [] value = "Right" -> "East"

\* world.rs:335-347: the planes at height 0 that stand on an Airport tile. A
\* plane stands on at most one tile, so the nested loops over the airports and
\* over the planes visit each such plane once, whatever the order.
landing_planes(ps, t, w, h) ==
    {k \in DOMAIN ps :
        /\ ps[k].height = 0
        /\ ps[k].pos.x < w /\ ps[k].pos.y < h
        /\ t[ps[k].pos.y][ps[k].pos.x][1] = "Airport"}

\* world.rs:349-364: the plane under key k panics the landing check.
landing_panics(ps, t, k) ==
    LET airport == t[ps[k].pos.y][ps[k].pos.x] IN
    \/ ps[k].destination[1] # "Airport"
    \/ DirectionCardinal_from(airport[2]) # ps[k].direction

\* world.rs:334-371: [planes, panic]; the plane is removed when
\* `dest_aid != *actual_aid`. The function returns None whenever it returns.
planes_land(ps, t, w, h) ==
    LET on == landing_planes(ps, t, w, h) IN
    IF \E k \in on : landing_panics(ps, t, k)
    THEN [planes |-> ps, panic |-> TRUE]
    ELSE [planes |-> [k \in DOMAIN ps \
                        {j \in on : ps[j].destination[2] # t[ps[j].pos.y][ps[j].pos.x][3]}
                      |-> ps[k]],
          panic |-> FALSE]

\* collision_check that finds two planes on one cell: <<plane_a, plane_b>>.
collision_check_same_cell(ps) ==
    IF \E j \in DOMAIN ps, k \in DOMAIN ps : j # k /\ ps[j].pos = ps[k].pos
    THEN LET j == CHOOSE j \in DOMAIN ps : \E k \in DOMAIN ps : j # k /\ ps[j].pos = ps[k].pos
         IN <<ps[j], ps[CHOOSE k \in DOMAIN ps : j # k /\ ps[j].pos = ps[k].pos]>>
    ELSE <<>>

\* world.rs:253-259: both return None.
collision_check(ps) ==
    <<>>
wall_collision_check(ps) ==
    <<>>

\* [planes, ret, advanced, ticked]: what tick_planes leaves and returns, with
\* adv the result of its advance loop.
tick_result(ps, r, adv) ==
    [planes |-> ps, ret |-> r, advanced |-> adv.planes, ticked |-> adv.ticked]

\* world.rs:383-397, with ld the result of planes_land.
tick_landed(adv, ld) ==
    IF ld.panic THEN tick_result(ld.planes, Panic, adv)
    ELSE IF collision_check(ld.planes) # <<>>
    THEN tick_result(ld.planes, <<"PlaneCollision">>, adv)
    ELSE IF wall_collision_check(ld.planes) # <<>>
    THEN tick_result(ld.planes, <<"PlaneTouchesWall">>, adv)
    ELSE tick_result(ld.planes, Onging, adv)

\* world.rs:380-383, with te the result of planes_take_exits.
tick_exited(adv, te, t, w, h) ==
    IF te.found # <<>>
    THEN tick_result(te.planes, WrongExit(te.found[1], te.found[2]), adv)
    ELSE tick_landed(adv, planes_land(te.planes, t, w, h))

\* tick_advanced with the exit check run before the result of the advance
\* loop is looked at.
tick_advanced_exits_first(adv, ex, t, w, h, o2, eo) ==
    IF adv.failed # <<>>
    THEN tick_result(planes_take_exits(adv.planes, adv.planes, o2, 1, ex, eo, w, h).planes,
                     PlaneNoFuel(adv.failed[1]), adv)
    ELSE tick_exited(adv, planes_take_exits(adv.planes, adv.planes, o2, 1, ex, eo, w, h),
                     t, w, h)

\* world.rs:374-380, with adv the result of the advance loop.
tick_advanced(adv, ex, t, w, h, o2, eo) ==
    IF adv.failed # <<>>
    THEN tick_result(adv.planes, PlaneNoFuel(adv.failed[1]), adv)
    ELSE tick_exited(adv, planes_take_exits(adv.planes, adv.planes, o2, 1, ex, eo, w, h),
                     t, w, h)

\* world.rs:373-398: tick_planes(), with the planes iterated in the order o1 by
\* the advance loop and o2 by the exit check, and the exits in the order eo.
tick_planes(ps, ex, t, w, h, o1, o2, eo) ==
    tick_advanced(advance(ps, o1, 1, {}), ex, t, w, h, o2, eo)

(***************************************************************************)
(* The inputs of the calls.                                                *)
(***************************************************************************)
\* Exit ids handed to place_exit; every plane's destination is Exit(1)
\* (world.rs:247), so 1 is the right exit and 2 a wrong one.
ExitIds ==
    {1, 2}
\* Exit ids handed to spawn_plane_at_exit: 0 is never registered.
SpawnIds ==
    {0} \cup ExitIds
\* Tiles handed to place_tile.
TileInputs ==
    {Airport("Right", 0), Beacon(0)}
\* Positions handed to place_tile and place_route_in_line: the grid and one
\* column and one row beyond it.
PosInputs ==
    {Pos(cx, cy) : cx \in 0..x, cy \in 0..y}

(***************************************************************************)
(* The states after construction.                                          *)
(***************************************************************************)
\* world.rs:79-88: the grid, the counter and the call record of World::new(w, h).
Fresh(w, h) ==
    /\ x = w
    /\ y = h
    /\ tiles = [cy \in 0..(h - 1) |-> [cx \in 0..(w - 1) |-> Empty]]
    /\ plane_counter = 0
    /\ call = <<"new", w, h>>
    /\ ret = Ok
    /\ advanced = EmptyMap
    /\ ticked = {}
    /\ painted = <<>>
    /\ ncalls = [exit |-> 0, spawn |-> 0, tick |-> 0, tile |-> 0, route |-> 0]

\* world.rs:79-88: World::new(w, h), before any call.
World_new(w, h) ==
    /\ Fresh(w, h)
    /\ planes = EmptyMap
    /\ exits = EmptyMap

InitAuthor ==
    World_new(WorldX, WorldY)

\* The levels of Spec: a new world on which place_exit was called once, with
\* any wall, departure heading, offset and id.
Init ==
    /\ Fresh(WorldX, WorldY)
    /\ planes = EmptyMap
    /\ \E where_on_wall \in DirectionGrid, plane_out_direction \in DirectionCardinal,
          wall_pos \in 0..MaxWallPos, idx \in ExitIds :
         exits = place_exit(EmptyMap, WorldX, WorldY, where_on_wall,
                            plane_out_direction, wall_pos, idx).exits

InitRoute ==
    World_new(RouteX, RouteY)

\* The levels of SpecFuel: one exit at offset 1, placed by place_exit on a new
\* world. The wall and the departure heading are paired as builtin.rs:24-28
\* pairs them (a plane then flies towards the exit's wall), or the heading
\* points out of the wall (a plane then flies away from it).
FuelExits ==
    {<<"Up", "South">>, <<"Down", "North">>, <<"Left", "East">>,
     <<"Right", "West">>, <<"Up", "North">>}

InitFuel ==
    /\ Fresh(WorldX, WorldY)
    /\ planes = EmptyMap
    /\ \E e \in FuelExits, idx \in ExitIds :
         exits = place_exit(EmptyMap, WorldX, WorldY, e[1], e[2], 1, idx).exits

\* The planes of SpecPlane: Plane::new on a cell of the grid, with any heading.
InitPlane ==
    /\ Fresh(WorldX, WorldY)
    /\ exits = EmptyMap
    /\ \E cx \in 0..(WorldX - 1), cy \in 0..(WorldY - 1),
          direction \in DirectionCardinal, kind \in PlaneKind :
         planes = MapInsert(EmptyMap, "a",
                    Plane_new(Pos(cx, cy), direction, kind, "a", DestExit(1)))

\* No call follows a panic.
Running ==
    ret[1] # "Panic"

(***************************************************************************)
(* The operations.                                                         *)
(***************************************************************************)
PlaceTile ==
    /\ Running
    /\ \E tile \in TileInputs, pos \in PosInputs :
         LET r == place_tile(tiles, x, y, tile, pos) IN
         /\ tiles' = r.tiles
         /\ ret' = r.ret
         /\ call' = <<"place_tile", tile, pos>>
    /\ painted' = <<>>
    /\ advanced' = EmptyMap
    /\ ticked' = {}
    /\ UNCHANGED <<x, y, planes, exits, plane_counter>>

PlaceRouteInLine ==
    /\ Running
    /\ \E a \in PosInputs, b \in PosInputs :
         LET r == place_route_in_line(tiles, x, y, a, b) IN
         /\ tiles' = r.tiles
         /\ ret' = r.ret
         /\ painted' = r.painted
         /\ call' = <<"place_route_in_line", a, b>>
    /\ advanced' = EmptyMap
    /\ ticked' = {}
    /\ UNCHANGED <<x, y, planes, exits, plane_counter>>

PlaceExit ==
    /\ Running
    /\ \E where_on_wall \in DirectionGrid, plane_out_direction \in DirectionCardinal,
          wall_pos \in 0..MaxWallPos, idx \in ExitIds :
         LET r == place_exit(exits, x, y, where_on_wall, plane_out_direction, wall_pos, idx) IN
         /\ exits' = r.exits
         /\ ret' = r.ret
         /\ call' = <<"place_exit", where_on_wall, plane_out_direction, wall_pos, idx>>
    /\ painted' = <<>>
    /\ advanced' = EmptyMap
    /\ ticked' = {}
    /\ UNCHANGED <<x, y, tiles, planes, plane_counter>>

SpawnPlaneAtExit ==
    /\ Running
    /\ \E exit_id \in SpawnIds, kind \in PlaneKind :
         \E r \in spawn_plane_at_exit(planes, exits, plane_counter, x, y, exit_id, kind) :
           /\ planes' = r.planes
           /\ plane_counter' = r.plane_counter
           /\ ret' = r.ret
           /\ call' = <<"spawn_plane_at_exit", exit_id, kind>>
    /\ painted' = <<>>
    /\ advanced' = EmptyMap
    /\ ticked' = {}
    /\ UNCHANGED <<x, y, tiles, exits>>

\* TickPlanes with the plane-id counter set back to the number of planes that
\* are left after the call.
TickPlanes_recounting ==
    /\ Running
    /\ \E o1 \in Orders(DOMAIN planes), o2 \in Orders(DOMAIN planes),
          eo \in Orders(DOMAIN exits) :
         LET r == tick_planes(planes, exits, tiles, x, y, o1, o2, eo) IN
         /\ planes' = r.planes
         /\ ret' = r.ret
         /\ advanced' = r.advanced
         /\ ticked' = r.ticked
         /\ plane_counter' = Cardinality(DOMAIN r.planes)
    /\ call' = <<"tick_planes">>
    /\ painted' = <<>>
    /\ UNCHANGED <<x, y, tiles, exits>>

TickPlanes ==
    /\ Running
    /\ \E o1 \in Orders(DOMAIN planes), o2 \in Orders(DOMAIN planes),
          eo \in Orders(DOMAIN exits) :
         LET r == tick_planes(planes, exits, tiles, x, y, o1, o2, eo) IN
         /\ planes' = r.planes
         /\ ret' = r.ret
         /\ advanced' = r.advanced
         /\ ticked' = r.ticked
    /\ call' = <<"tick_planes">>
    /\ painted' = <<>>
    /\ UNCHANGED <<x, y, tiles, exits, plane_counter>>

\* One more call of the operation f is counted.
Count(f) ==
    ncalls' = [ncalls EXCEPT ![f] = @ + 1]

(***************************************************************************)
(* Spec: on a level with one exit, planes are spawned and ticked.          *)
(***************************************************************************)
Next ==
    \/ ncalls.spawn < MaxSpawns /\ SpawnPlaneAtExit /\ Count("spawn")
    \/ ncalls.tick < MaxTicks /\ TickPlanes /\ Count("tick")

Spec ==
    Init /\ [][Next]_vars

(***************************************************************************)
(* SpecAuthor: a level is built on a new world, and planes are spawned.    *)
(***************************************************************************)
AuthorCalls ==
    ncalls.tile + ncalls.route + ncalls.exit + ncalls.spawn

NextAuthor ==
    \/ AuthorCalls < MaxAuthorCalls /\ PlaceTile /\ Count("tile")
    \/ AuthorCalls < MaxAuthorCalls /\ PlaceRouteInLine /\ Count("route")
    \/ AuthorCalls < MaxAuthorCalls /\ PlaceExit /\ Count("exit")
    \/ AuthorCalls < MaxAuthorCalls /\ SpawnPlaneAtExit /\ Count("spawn")

SpecAuthor ==
    InitAuthor /\ [][NextAuthor]_vars

(***************************************************************************)
(* SpecRoute: lines are drawn on a new world.                              *)
(***************************************************************************)
NextRoute ==
    ncalls.route < MaxRouteCalls /\ PlaceRouteInLine /\ Count("route")

SpecRoute ==
    InitRoute /\ [][NextRoute]_vars

(***************************************************************************)
(* SpecFuel: on a level with one exit, planes are spawned and ticked until *)
(* they are past their fuel.                                               *)
(***************************************************************************)
NextFuel ==
    \/ ncalls.spawn < MaxFuelPlanes /\ SpawnPlaneAtExit /\ Count("spawn")
    \/ /\ \A k \in DOMAIN planes : planes[k].ticks < MaxFuelTicks
       /\ TickPlanes
       /\ UNCHANGED ncalls

SpecFuel ==
    InitFuel /\ [][NextFuel]_vars

(***************************************************************************)
(* SpecPlane: Plane::tick on its own, called on a plane again and again.   *)
(***************************************************************************)
PlaneTick ==
    /\ \A k \in DOMAIN planes : planes[k].ticks < MaxFuelTicks
    /\ planes' = [k \in DOMAIN planes |-> tick(planes[k]).plane]
    /\ ret' = IF \A k \in DOMAIN planes : tick(planes[k]).ok THEN Ok ELSE <<"Err">>
    /\ call' = <<"Plane::tick">>
    /\ UNCHANGED <<x, y, tiles, exits, plane_counter, advanced, ticked, painted, ncalls>>

NextPlane ==
    PlaneTick

SpecPlane ==
    InitPlane /\ [][NextPlane]_vars

(***************************************************************************)
(* SpecPriority: on a level with one exit and one plane that is about to   *)
(* run out of fuel, more planes are spawned and all are ticked until a     *)
(* plane is past its fuel.                                                 *)
(***************************************************************************)
\* plane.rs:70-73: the fuel ceiling of a kind.
fuel_of(kind) ==
    IF kind = "Jet" THEN JetFuel ELSE SmallFuel

\* world.rs:373-398: the result of the last of n >= 1 tick_planes calls on a
\* world with at most one plane and one exit (their iteration order is then
\* the only one there is). The n calls are made as a first half and a second
\* half; ticked_then has r, the result of the first half.
RECURSIVE ticked_times(_, _, _, _, _, _)
RECURSIVE ticked_then(_, _, _, _, _, _)
ticked_then(r, ex, t, w, h, n) ==
    IF r.ret[1] = "Panic" THEN r
    ELSE ticked_times(r.planes, ex, t, w, h, n)
ticked_times(ps, ex, t, w, h, n) ==
    IF n = 1
    THEN tick_planes(ps, ex, t, w, h,
                     CHOOSE o \in Orders(DOMAIN ps) : TRUE,
                     CHOOSE o \in Orders(DOMAIN ps) : TRUE,
                     CHOOSE o \in Orders(DOMAIN ex) : TRUE)
    ELSE ticked_then(ticked_times(ps, ex, t, w, h, n \div 2), ex, t, w, h, n - (n \div 2))

\* The worlds of SpecPriority: on a level of SpecFuel, spawn_plane_at_exit was
\* called once, for the exit of the level, and then tick_planes n times, which
\* leaves the plane 1 to MaxPriorityLead ticks short of its fuel ceiling; r
\* is the result of the last of those calls.
InitPriorityTicked(r, n) ==
    /\ planes = r.planes
    /\ ret = r.ret
    /\ advanced = r.advanced
    /\ ticked = r.ticked
    /\ call = <<"tick_planes">>
    /\ ncalls = [exit |-> 1, spawn |-> 1, tick |-> n, tile |-> 0, route |-> 0]

InitPriority ==
    /\ x = WorldX
    /\ y = WorldY
    /\ tiles = [cy \in 0..(WorldY - 1) |-> [cx \in 0..(WorldX - 1) |-> Empty]]
    /\ plane_counter = 1
    /\ painted = <<>>
    /\ \E e \in FuelExits, idx \in ExitIds, kind \in PlaneKind, lead \in 1..MaxPriorityLead :
         /\ exits = place_exit(EmptyMap, WorldX, WorldY, e[1], e[2], 1, idx).exits
         /\ \E s \in spawn_plane_at_exit(EmptyMap, exits, 0, WorldX, WorldY, idx, kind) :
              /\ IsOk(s.ret)
              /\ InitPriorityTicked(ticked_times(s.planes, exits, tiles, WorldX, WorldY,
                                                 fuel_of(kind) - lead),
                                    fuel_of(kind) - lead)

NextPriority ==
    \/ ncalls.spawn < 1 + MaxPriorityPlanes /\ SpawnPlaneAtExit /\ Count("spawn")
    \/ /\ \A k \in DOMAIN planes : planes[k].ticks <= fuel_of(planes[k].kind)
       /\ TickPlanes
       /\ UNCHANGED ncalls

SpecPriority ==
    InitPriority /\ [][NextPriority]_vars

(***************************************************************************)
(* SpecIds: plane ids are taken from a new world, one after the other.     *)
(***************************************************************************)
\* world.rs:215-223: next_plane_idx(); it returns the letter.
NextPlaneIdx ==
    /\ Running
    /\ \E n \in next_plane_idx(plane_counter) :
         /\ plane_counter' = n.plane_counter
         /\ ret' = IF n.panic THEN Panic ELSE <<"char", n.out>>
    /\ call' = <<"next_plane_idx">>
    /\ painted' = <<>>
    /\ advanced' = EmptyMap
    /\ ticked' = {}
    /\ UNCHANGED <<x, y, tiles, planes, exits>>

NextIds ==
    ncalls.spawn < MaxIdCalls /\ NextPlaneIdx /\ Count("spawn")

SpecIds ==
    InitAuthor /\ [][NextIds]_vars

(***************************************************************************)
(* The textual render (world.rs:192-213, 416-502). A text is a sequence of *)
(* characters: an ASCII character stands for itself, a box-drawing         *)
(* character is written as its code point ("U+2500" is the horizontal bar).*)
(***************************************************************************)
\* `{idx}` and `{height}`: an unsigned number in decimal.
RECURSIVE Digits(_)
Digits(n) ==
    IF n < 10 THEN <<ToString(n)>>
    ELSE Digits(n \div 10) \o <<ToString(n % 10)>>

\* world.rs:416-429
DirectionGrid_fmt(dir) ==
    CASE dir = "Up" -> <<"^">>
      [] dir = "Left" -> <<"<">>
      [] dir = "Down" -> <<"v">>
      [] dir = "Right" -> <<">">>

\* world.rs:431-444
WorldTile_fmt(tile) ==
    CASE tile[1] = "Empty" -> <<".", " ">>
      [] tile[1] = "Route" -> <<"+", " ">>
      [] tile[1] = "Beacon" -> <<"b">> \o Digits(tile[2])
      [] tile[1] = "Airport" -> DirectionGrid_fmt(tile[2]) \o Digits(tile[3])

\* world.rs:494-502: the id is shown in the other case than it is stored in.
Plane_fmt(p) ==
    <<IF p.kind = "Small" THEN to_ascii_lowercase(p.id) ELSE to_ascii_uppercase(p.id)>>
    \o Digits(p.height)

\* world.rs:194-198: the ids of the exits on wall dir at offset pos.
exits_at(ex, pos, dir) ==
    {idx \in DOMAIN ex : ex[idx].wall_pos = pos /\ ex[idx].wall_direction = dir}

\* world.rs:192-213: get_wall(pos, dir). Of the exits at that place the one
\* the iteration of the HashMap visits last is shown: last[<<dir, pos>>].
get_wall(ex, last, pos, dir) ==
    IF exits_at(ex, pos, dir) # {}
    THEN Digits(last[<<dir, pos>>]) \o (IF dir \in {"Up", "Down"} THEN <<"U+2500">> ELSE <<" ">>)
    ELSE (IF dir \in {"Up", "Down"} THEN <<"U+2500", "U+2500">> ELSE <<"U+2502", " ">>)

\* The choices of the exit shown at each place of a wall that has exits: the
\* places are served by disjoint sets of exits, so every choice is the outcome
\* of some iteration order.
LastExits(ex) ==
    LET places == {<<ex[idx].wall_direction, ex[idx].wall_pos>> : idx \in DOMAIN ex}
    IN {f \in [places -> DOMAIN ex] : \A c \in places : f[c] \in exits_at(ex, c[2], c[1])}

\* world.rs:465-470: the keys of the planes on cell (cx, cy); the one the
\* iteration visits first is shown: shown[<<cx, cy>>].
planes_at(ps, cx, cy) ==
    {k \in DOMAIN ps : ps[k].pos = Pos(cx, cy)}

ShownPlanes(ps) ==
    LET cells == {<<ps[k].pos.x, ps[k].pos.y>> : k \in DOMAIN ps}
    IN {f \in [cells -> DOMAIN ps] : \A c \in cells : f[c] \in planes_at(ps, c[1], c[2])}

\* world.rs:454-456, 480-482: the wall glyphs of a border from column i on.
RECURSIVE border(_, _, _, _, _)
border(ex, last, dir, i, w) ==
    IF i >= w THEN <<>>
    ELSE get_wall(ex, last, i, dir) \o border(ex, last, dir, i + 1, w)

\* world.rs:464-472: the glyphs of row cy from column i on.
RECURSIVE tile_row(_, _, _, _, _, _)
tile_row(t, ps, shown, cy, i, w) ==
    IF i >= w THEN <<>>
    ELSE (IF planes_at(ps, i, cy) # {}
          THEN Plane_fmt(ps[shown[<<i, cy>>]])
          ELSE WorldTile_fmt(t[cy][i]))
         \o tile_row(t, ps, shown, cy, i + 1, w)

\* world.rs:462-476: the lines of the rows from cy on, each after a line break.
RECURSIVE inner_map(_, _, _, _, _, _, _, _)
inner_map(t, ps, ex, shown, last, cy, w, h) ==
    IF cy >= h THEN <<>>
    ELSE <<"\n">> \o get_wall(ex, last, cy, "Left") \o tile_row(t, ps, shown, cy, 0, w)
         \o get_wall(ex, last, cy, "Right")
         \o inner_map(t, ps, ex, shown, last, cy + 1, w, h)

\* world.rs:446-492: the text of the world.
World_fmt(t, ps, ex, shown, last, w, h) ==
    <<"U+250C", "U+2500">> \o border(ex, last, "Up", 0, w) \o <<"U+2510">>
    \o inner_map(t, ps, ex, shown, last, 0, w, h)
    \o <<"\n", "U+2514", "U+2500">> \o border(ex, last, "Down", 0, w) \o <<"U+2518">>

\* str::contains
Contains(text, pattern) ==
    \E i \in 1..(Len(text) - Len(pattern) + 1) :
      \A j \in 1..Len(pattern) : text[i + j - 1] = pattern[j]

(***************************************************************************)
(* SpecLevel: the builtin level (level/builtin.rs) is rendered, and planes *)
(* are spawned and ticked on its world.                                    *)
(***************************************************************************)
\* builtin.rs:13-22: the tiles of the builtin level.
builtin_tiles ==
    LET t0 == [cy \in 0..(BuiltinY - 1) |-> [cx \in 0..(BuiltinX - 1) |-> Empty]]
        t1 == place_route_in_line(t0, BuiltinX, BuiltinY, Pos(19, 10), Pos(0, 10)).tiles
        t2 == place_route_in_line(t1, BuiltinX, BuiltinY, Pos(5, 0), Pos(5, 19)).tiles
        t3 == place_route_in_line(t2, BuiltinX, BuiltinY, Pos(12, 0), Pos(12, 19)).tiles
        t4 == place_route_in_line(t3, BuiltinX, BuiltinY, Pos(12, 10), Pos(19, 3)).tiles
        t5 == place_tile(t4, BuiltinX, BuiltinY, Beacon(0), Pos(12, 10)).tiles
    IN place_tile(t5, BuiltinX, BuiltinY, Airport("Right", 0), Pos(5, 10)).tiles

\* builtin.rs:24-28: the exits of the builtin level.
builtin_exits ==
    LET e0 == place_exit(EmptyMap, BuiltinX, BuiltinY, "Up", "South", 12, 0).exits
        e1 == place_exit(e0, BuiltinX, BuiltinY, "Right", "SouthWest", 2, 1).exits
        e2 == place_exit(e1, BuiltinX, BuiltinY, "Right", "West", 10, 2).exits
        e3 == place_exit(e2, BuiltinX, BuiltinY, "Left", "East", 10, 3).exits
    IN place_exit(e3, BuiltinX, BuiltinY, "Down", "North", 12, 4).exits

\* builtin.rs:9-38: Level::builtin().
InitLevel ==
    /\ x = BuiltinX
    /\ y = BuiltinY
    /\ tiles = builtin_tiles
    /\ planes = EmptyMap
    /\ exits = builtin_exits
    /\ plane_counter = 0
    /\ call = <<"builtin">>
    /\ ret = Ok
    /\ advanced = EmptyMap
    /\ ticked = {}
    /\ painted = <<>>
    /\ ncalls = [exit |-> 0, spawn |-> 0, tick |-> 0, tile |-> 0, route |-> 0]

\* level/mod.rs:38-40: Level::render(); it returns the text of the world.
Render ==
    /\ Running
    /\ call[1] # "render"
    /\ \E shown \in ShownPlanes(planes), last \in LastExits(exits) :
         ret' = <<"String", World_fmt(tiles, planes, exits, shown, last, x, y)>>
    /\ call' = <<"render">>
    /\ painted' = <<>>
    /\ advanced' = EmptyMap
    /\ ticked' = {}
    /\ UNCHANGED <<x, y, tiles, planes, exits, plane_counter, ncalls>>

NextLevel ==
    \/ Render
    \/ ncalls.spawn < MaxSpawns /\ SpawnPlaneAtExit /\ Count("spawn")
    \/ ncalls.tick < MaxTicks /\ TickPlanes /\ Count("tick")

SpecLevel ==
    InitLevel /\ [][NextLevel]_vars

(***************************************************************************)
(* SpecTraffic: on a level with one exit and one tile, planes are spawned  *)
(* and ticked.                                                             *)
(***************************************************************************)
\* The cell every plane of the level flies over: planes spawned at the exits
\* of FuelExits fly along column 1 or along row 1.
Crossing ==
    Pos(1, 1)

\* The levels of SpecTraffic: a level of SpecFuel on which place_tile put an
\* airport or a beacon on the crossing.
InitTraffic ==
    /\ x = WorldX
    /\ y = WorldY
    /\ planes = EmptyMap
    /\ plane_counter = 0
    /\ call = <<"place_tile">>
    /\ ret = Ok
    /\ advanced = EmptyMap
    /\ ticked = {}
    /\ painted = <<>>
    /\ ncalls = [exit |-> 1, spawn |-> 0, tick |-> 0, tile |-> 1, route |-> 0]
    /\ \E e \in FuelExits, idx \in ExitIds, tile \in TileInputs :
         /\ exits = place_exit(EmptyMap, WorldX, WorldY, e[1], e[2], 1, idx).exits
         /\ tiles = place_tile([cy \in 0..(WorldY - 1) |-> [cx \in 0..(WorldX - 1) |-> Empty]],
                               WorldX, WorldY, tile, Crossing).tiles

NextTraffic ==
    \/ ncalls.spawn < MaxTrafficSpawns /\ SpawnPlaneAtExit /\ Count("spawn")
    \/ ncalls.tick < MaxTrafficTicks /\ TickPlanes /\ Count("tick")

SpecTraffic ==
    InitTraffic /\ [][NextTraffic]_vars

(***************************************************************************)
(* SpecLand: the landing check (world.rs:334-371) on its own, called on a  *)
(* world with one airport and with planes at any height, bound for an      *)
(* airport or for an exit. No operation of World makes a plane whose       *)
(* height is not START_HEIGHT or whose destination is an airport: the      *)
(* worlds are the arguments of the function, drawn from small sets.        *)
(***************************************************************************)
\* Airport ids, of the airport tile and of the destinations.
AirportIds ==
    {0, 1}
\* Plane heights: on the ground and at START_HEIGHT.
Heights ==
    {0, START_HEIGHT}
\* Destinations of the planes.
Destinations ==
    {DestAirport(aid) : aid \in AirportIds} \cup {DestExit(1)}

\* A plane as Plane::new makes it (plane.rs:28-48), at height h.
PlaneAt(pos, direction, id, destination, h) ==
    [Plane_new(pos, direction, "Jet", id, destination) EXCEPT !.height = h]

\* The plane under key "b", if there is one: on the ground on the crossing,
\* heading East, bound for an airport.
SecondPlanes ==
    {EmptyMap} \cup
    {MapInsert(EmptyMap, "b", PlaneAt(Crossing, "East", "b", DestAirport(aid), 0)) :
        aid \in AirportIds}

InitLand ==
    /\ x = WorldX
    /\ y = WorldY
    /\ exits = EmptyMap
    /\ plane_counter = 0
    /\ call = <<"new", WorldX, WorldY>>
    /\ ret = Ok
    /\ advanced = EmptyMap
    /\ ticked = {}
    /\ painted = <<>>
    /\ ncalls = [exit |-> 0, spawn |-> 0, tick |-> 0, tile |-> 1, route |-> 0]
    /\ \E airdir \in DirectionGrid, actual_aid \in AirportIds :
         tiles = place_tile([cy \in 0..(WorldY - 1) |-> [cx \in 0..(WorldX - 1) |-> Empty]],
                            WorldX, WorldY, Airport(airdir, actual_aid), Crossing).tiles
    /\ \E pos \in {Crossing, Pos(0, 0)}, direction \in DirectionCardinal,
          destination \in Destinations, h \in Heights, second \in SecondPlanes :
         planes = MapInsert(second, "a", PlaneAt(pos, direction, "a", destination, h))

\* world.rs:334-371: planes_land(); it returns None or panics.
PlanesLand ==
    /\ Running
    /\ LET r == planes_land(planes, tiles, x, y) IN
         /\ planes' = r.planes
         /\ ret' = IF r.panic THEN Panic ELSE <<"None">>
    /\ call' = <<"planes_land">>
    /\ UNCHANGED <<x, y, tiles, exits, plane_counter, advanced, ticked, painted, ncalls>>

NextLand ==
    PlanesLand

SpecLand ==
    InitLand /\ [][NextLand]_vars

(***************************************************************************)
(* SpecReuse: on a level with one exit, planes are spawned until the       *)
(* letters of ORDER are used a second time. The planes are of one kind     *)
(* while unused letters are left, and of any kind after that.              *)
(***************************************************************************)
NextReuse ==
    /\ ncalls.spawn < MaxReuseSpawns
    /\ SpawnPlaneAtExit
    /\ Count("spawn")
    /\ plane_counter < Len(ORDER) => \A k \in DOMAIN planes : planes[k].kind = call'[3]

SpecReuse ==
    InitFuel /\ [][NextReuse]_vars

(***************************************************************************)
(* The claims.                                                             *)
(***************************************************************************)
\* The boundary cell of the grid on the wall of exit e, at its offset.
WallCell(e) ==
    CASE e.wall_direction = "Up" -> Pos(e.wall_pos, 0)
      [] e.wall_direction = "Down" -> Pos(e.wall_pos, y - 1)
      [] e.wall_direction = "Left" -> Pos(0, e.wall_pos)
      [] e.wall_direction = "Right" -> Pos(x - 1, e.wall_pos)

\* Position pos is the boundary cell aligned with the registered exit eid.
AlignedWithExit(pos, eid) ==
    eid \in DOMAIN exits /\ pos = WallCell(exits[eid])

\* Plane p, as the advance loop left it, is past its grace and bound for an exit.
BoundForExit(p) ==
    ~p.just_spawned /\ p.destination[1] = "Exit"

\* C1: a tick_planes call that leaves a non-grace plane with destination
\* Exit(d) on the boundary cell aligned with the registered exit d removes the
\* plane from the plane mapping and returns Ongoing, whatever the plane's kind.
C1_RightExitRemovesPlane ==
    call[1] = "tick_planes" =>
      \A k \in DOMAIN advanced :
        (BoundForExit(advanced[k]) /\
         AlignedWithExit(advanced[k].pos, advanced[k].destination[2]))
        => (k \notin DOMAIN planes /\ ret = Onging)

\* C2: a tick_planes call that leaves a non-grace plane with destination
\* Exit(d) on the boundary cell aligned with a registered exit e # d returns
\* WrongExit(plane, e).
C2_WrongExitReported ==
    call[1] = "tick_planes" =>
      \A k \in DOMAIN advanced : \A e \in DOMAIN exits :
        (BoundForExit(advanced[k]) /\ e # advanced[k].destination[2] /\
         AlignedWithExit(advanced[k].pos, e))
        => (ret[1] = "WrongExit" /\ ret[2] = advanced[k] /\ ret[3] = e)

\* C3: a plane spawned by spawn_plane_at_exit(exit_id, kind) starts on the
\* boundary cell of the wall the exit sits on, at the exit's offset.
C3_SpawnOnExitWall ==
    [][(call'[1] = "spawn_plane_at_exit" /\ IsOk(ret'))
       => planes'[ORDER[(plane_counter % 25) + 1]].pos = WallCell(exits[call'[2]])]_vars

\* C9: every plane in the plane mapping has a position inside the grid.
C9_PlanesInsideGrid ==
    \A k \in DOMAIN planes : planes[k].pos.x < x /\ planes[k].pos.y < y

\* C10: place_tile, place_route_in_line, place_exit and spawn_plane_at_exit
\* return Ok or an Error for every input and never panic.
C10_AuthoringNeverPanics ==
    call[1] \in {"place_tile", "place_route_in_line", "place_exit", "spawn_plane_at_exit"}
    => ret[1] \in {"Ok", "Err"}

\* The fuel ceiling of a plane of the given kind, as C4 states it.
FuelCeiling(kind) ==
    IF kind = "Jet" THEN 120 ELSE 50

\* C4: a plane is reported out of fuel on its 120th tick (Jet) or its 50th tick
\* (Small) and on no earlier tick: the tick_planes call in which a plane gets
\* that tick returns PlaneNoFuel carrying that plane, and a plane carried by
\* PlaneNoFuel has had at least that many ticks.
C4_FuelExhaustedOnCeilingTick ==
    call[1] = "tick_planes" =>
      /\ \A k \in ticked :
           advanced[k].ticks = FuelCeiling(advanced[k].kind)
           => (ret[1] = "PlaneNoFuel" /\ ret[2] = advanced[k])
      /\ ret[1] = "PlaneNoFuel" => ret[2].ticks >= FuelCeiling(ret[2].kind)

\* C4 witness: a Jet is reported out of fuel on its 120th tick.
C4_Witness ==
    /\ call[1] = "tick_planes"
    /\ ret[1] = "PlaneNoFuel"
    /\ ret[2].kind = "Jet"
    /\ ret[2].ticks = 120

\* The cell one step from pos in the heading direction (plane.rs:76-101).
OneCellAhead(pos, direction) ==
    Pos(pos.x + (CASE direction \in {"East", "NorthEast", "SouthEast"} -> 1
                   [] direction \in {"West", "NorthWest", "SouthWest"} -> -1
                   [] OTHER -> 0),
        pos.y + (CASE direction \in {"South", "SouthEast", "SouthWest"} -> 1
                   [] direction \in {"North", "NorthEast", "NorthWest"} -> -1
                   [] OTHER -> 0))

\* C5: every Plane::tick call adds exactly one to the elapsed-tick counter;
\* while fuel remains a Jet moves exactly one cell in its heading's direction on
\* every tick, and a Small plane moves exactly one cell on every tick with an
\* even elapsed-tick value and keeps its position on the other ticks.
C5_TickCountsAndMoves ==
    [][call'[1] = "Plane::tick" =>
         \A k \in DOMAIN planes :
           /\ planes'[k].ticks = planes[k].ticks + 1
           /\ IsOk(ret') =>
                planes'[k].pos =
                  IF planes[k].kind = "Jet" \/ planes'[k].ticks % 2 = 0
                  THEN OneCellAhead(planes[k].pos, planes[k].direction)
                  ELSE planes[k].pos]_vars

\* Position pos is a cell of the grid.
InGrid(pos) ==
    pos.x < x /\ pos.y < y

\* The cells of grid t that hold a Route tile.
RouteCells(t) ==
    {c \in [x : 0..(x - 1), y : 0..(y - 1)] : t[c.y][c.x] = Route}

\* The cells place_route_in_line painted, as a set.
PaintedCells(cells) ==
    {cells[i] : i \in DOMAIN cells}

\* C6: for in-grid endpoints A and B, place_route_in_line(A, B) succeeds,
\* leaves a Route tile at A and at B, and paints exactly
\* max(|Ax-Bx|, |Ay-By|) + 1 distinct cells: those cells, and no others, become
\* Route tiles.
C6_LineEndpointsAndCount ==
    [][(call'[1] = "place_route_in_line" /\ InGrid(call'[2]) /\ InGrid(call'[3])) =>
         /\ ret' = Ok
         /\ tiles'[call'[2].y][call'[2].x] = Route
         /\ tiles'[call'[3].y][call'[3].x] = Route
         /\ Cardinality(PaintedCells(painted')) =
              Max(Abs(call'[2].x - call'[3].x), Abs(call'[2].y - call'[3].y)) + 1
         /\ RouteCells(tiles') = RouteCells(tiles) \cup PaintedCells(painted')]_vars

\* C6 witness: a steep line drawn leftwards and downwards the grid, neither
\* axis-parallel nor diagonal, was painted.
C6_Witness ==
    /\ call[1] = "place_route_in_line"
    /\ ret = Ok
    /\ call[2] = Pos(2, 0)
    /\ call[3] = Pos(0, 3)
    /\ Len(painted) = 4

Sgn(n) ==
    IF n > 0 THEN 1 ELSE IF n < 0 THEN -1 ELSE 0

\* The cells of the diagonal from a to b, for |a.x - b.x| = |a.y - b.y|.
Diagonal(a, b) ==
    {Pos(a.x + i * Sgn(b.x - a.x), a.y + i * Sgn(b.y - a.y)) : i \in 0..Abs(b.x - a.x)}

\* C8: for in-grid A and B with |Ax-Bx| = |Ay-By|, place_route_in_line(A, B)
\* leaves a Route tile on every cell of the diagonal between A and B and
\* changes no cell off that diagonal.
C8_DiagonalPainted ==
    [][(/\ call'[1] = "place_route_in_line"
        /\ InGrid(call'[2]) /\ InGrid(call'[3])
        /\ Abs(call'[2].x - call'[3].x) = Abs(call'[2].y - call'[3].y)) =>
         /\ \A c \in Diagonal(call'[2], call'[3]) : tiles'[c.y][c.x] = Route
         /\ \A cx \in 0..(x - 1), cy \in 0..(y - 1) :
              Pos(cx, cy) \notin Diagonal(call'[2], call'[3])
              => tiles'[cy][cx] = tiles[cy][cx]]_vars

\* C8 witness: the anti-diagonal from (3, 0) to (0, 3) was painted.
C8_Witness ==
    /\ call[1] = "place_route_in_line"
    /\ call[2] = Pos(3, 0)
    /\ call[3] = Pos(0, 3)
    /\ RouteCells(tiles) = {Pos(3, 0), Pos(2, 1), Pos(1, 2), Pos(0, 3)}

\* The extent of the axis the wall runs along: the width for the Up and Down
\* walls, the height for the Left and Right walls.
WallExtent(wall) ==
    IF wall \in {"Up", "Down"} THEN x ELSE y

\* C11: place_exit(wall, heading, offset, id) fails with ExitPosOutOfBounds and
\* leaves the exit table unchanged when offset is not smaller than the extent
\* of the axis the wall runs along; otherwise it succeeds and the exit table
\* maps id to exactly the given wall, heading and offset, the other ids as before.
C11_PlaceExitChecksOffset ==
    [][call'[1] = "place_exit" =>
         IF call'[4] >= WallExtent(call'[2])
         THEN /\ ret'[1] = "Err"
              /\ ret'[2] = "ExitPosOutOfBounds"
              /\ exits' = exits
         ELSE /\ ret' = Ok
              /\ exits' = MapInsert(exits, call'[5],
                                    [wall_direction |-> call'[2],
                                     plane_out_direction |-> call'[3],
                                     wall_pos |-> call'[4]])]_vars

\* C12: spawn_plane_at_exit(exit_id, kind) with an exit_id that is not in the
\* exit table returns NoExitForID(exit_id) and leaves the plane mapping, the
\* plane-id counter, the tiles and the exits unchanged.
C12_SpawnUnknownExit ==
    [][(call'[1] = "spawn_plane_at_exit" /\ call'[2] \notin DOMAIN exits) =>
         /\ ret' = Err("NoExitForID", call'[2], 0)
         /\ planes' = planes
         /\ plane_counter' = plane_counter
         /\ tiles' = tiles
         /\ exits' = exits]_vars

\* C12 witness: a spawn was asked for exit 2 on a world whose only exit is 1,
\* and was refused.
C12_Witness ==
    /\ call[1] = "spawn_plane_at_exit"
    /\ call[2] = 2
    /\ DOMAIN exits = {1}
    /\ ret[1] = "Err"

\* The heading reversed, as a table.
Reversed ==
    [d \in DirectionCardinal |->
       CASE d = "North" -> "South" [] d = "South" -> "North"
         [] d = "East" -> "West" [] d = "West" -> "East"
         [] d = "NorthEast" -> "SouthWest" [] d = "SouthWest" -> "NorthEast"
         [] d = "NorthWest" -> "SouthEast" [] d = "SouthEast" -> "NorthWest"]

\* C13: a successful spawn_plane_at_exit inserts one plane, whose heading is the
\* reverse of the exit's departure heading, whose height is 7, whose elapsed
\* ticks are 0 and whose just_spawned flag is set; the planes under the other
\* keys are as before.
C13_SpawnedPlane ==
    [][(call'[1] = "spawn_plane_at_exit" /\ IsOk(ret')) =>
         \E k \in DOMAIN planes' :
           /\ planes'[k].direction = Reversed[exits[call'[2]].plane_out_direction]
           /\ planes'[k].height = 7
           /\ planes'[k].ticks = 0
           /\ planes'[k].just_spawned
           /\ planes'[k].kind = call'[3]
           /\ DOMAIN planes' = DOMAIN planes \cup {k}
           /\ \A j \in DOMAIN planes' \ {k} : planes'[j] = planes[j]]_vars

\* C13 witness: a plane was spawned at an exit with departure heading West and
\* heads East.
C13_Witness ==
    /\ call[1] = "spawn_plane_at_exit"
    /\ IsOk(ret)
    /\ exits[call[2]].plane_out_direction = "West"
    /\ \E k \in DOMAIN planes : planes[k].direction = "East" /\ planes[k].ticks = 0

\* C14: the n-th plane id taken on a world (n counted from 0) is the letter at
\* index n mod 25 of the alphabet a..z without o, for every n, also past the
\* 256 values of the 8-bit counter.
C14_LettersCycle ==
    [][(call'[1] = "next_plane_idx" /\ ret'[1] = "char")
       => ret'[2] = ORDER[(ncalls.spawn % 25) + 1]]_vars

\* C15: a plane is exempt from the exit check in its first and in its second
\* tick_planes call after spawn: such a call neither removes the plane nor
\* returns WrongExit for it.
C15_GraceTwoTicks ==
    call[1] = "tick_planes" =>
      \A k \in DOMAIN advanced :
        advanced[k].ticks <= 2
        => /\ k \in DOMAIN planes
           /\ ~(ret[1] = "WrongExit" /\ ret[2] = advanced[k])

\* C16: the text Level::render() returns for the builtin level contains the
\* route glyph "+ ", the empty glyph ". ", the beacon glyph "b0" and the exit
\* markers "e0" and "e1".
C16_RenderGlyphs ==
    call[1] = "render" =>
      /\ Contains(ret[2], <<"+", " ">>)
      /\ Contains(ret[2], <<".", " ">>)
      /\ Contains(ret[2], <<"b", "0">>)
      /\ Contains(ret[2], <<"e", "0">>)
      /\ Contains(ret[2], <<"e", "1">>)

\* Cell q is one step from cell p on the line from a to b: exactly 1 along the
\* major axis of the line and at most 1 along its minor axis.
LineStep(p, q, a, b) ==
    IF Abs(b.x - a.x) >= Abs(b.y - a.y)
    THEN Abs(q.x - p.x) = 1 /\ Abs(q.y - p.y) <= 1
    ELSE Abs(q.y - p.y) = 1 /\ Abs(q.x - p.x) <= 1

\* Cell c lies in the bounding box of a and b.
InBox(c, a, b) ==
    /\ c.x >= (IF a.x < b.x THEN a.x ELSE b.x)
    /\ c.x <= Max(a.x, b.x)
    /\ c.y >= (IF a.y < b.y THEN a.y ELSE b.y)
    /\ c.y <= Max(a.y, b.y)

\* C17: for in-grid A and B, the cells place_route_in_line(A, B) paints, in
\* painting order, form a gap-free 8-connected path: each cell is one step
\* from the one before it (exactly 1 along the major axis, at most 1 along
\* the minor axis), and every painted cell lies in the bounding box of A and B.
C17_ConnectedPath ==
    [][(call'[1] = "place_route_in_line" /\ InGrid(call'[2]) /\ InGrid(call'[3])) =>
         /\ Len(painted') >= 1
         /\ \A i \in 2..Len(painted') :
              LineStep(painted'[i - 1], painted'[i], call'[2], call'[3])
         /\ \A i \in 1..Len(painted') : InBox(painted'[i], call'[2], call'[3])]_vars

\* C17 witness: a shallow line of five cells was painted from right to left
\* and from bottom to top.
C17_Witness ==
    /\ call[1] = "place_route_in_line"
    /\ call[2] = Pos(4, 3)
    /\ call[3] = Pos(0, 1)
    /\ Len(painted) = 5
    /\ painted[1] = Pos(4, 3)
    /\ painted[5] = Pos(0, 1)

\* C18: fuel exhaustion has priority over every other check: a tick_planes
\* call in which some plane reaches its fuel ceiling returns PlaneNoFuel and
\* runs no exit or landing check, so the plane mapping is as the advance loop
\* left it and no plane is removed.
C18_FuelFirst ==
    call[1] = "tick_planes" =>
      ((\E k \in ticked : advanced[k].ticks >= FuelCeiling(advanced[k].kind))
       => /\ ret[1] = "PlaneNoFuel"
          /\ planes = advanced)

\* C18 witness: a plane ran out of fuel in a tick_planes call that left a Jet,
\* past its grace, on the cell of the Up wall aligned with exit 1, its
\* destination; the Jet is still in the mapping.
C18_Witness ==
    /\ call[1] = "tick_planes"
    /\ ret[1] = "PlaneNoFuel"
    /\ \E k \in DOMAIN planes :
         /\ planes[k].kind = "Jet"
         /\ BoundForExit(planes[k])
         /\ planes[k].pos.y = 0
         /\ k \in ticked
         /\ planes[k].ticks = 3
         /\ AlignedWithExit(planes[k].pos, planes[k].destination[2])
         /\ exits[1].wall_direction = "Up"

\* C19: tick_planes is all-or-nothing over the planes: when a call returns,
\* every plane that was in the mapping when it began has had its elapsed-tick
\* counter advanced by exactly one.
C19_AllPlanesTicked ==
    [][call'[1] = "tick_planes" =>
         \A k \in DOMAIN planes :
           /\ k \in DOMAIN advanced'
           /\ advanced'[k].ticks = planes[k].ticks + 1]_vars

\* C20: when a plane's move in a tick would take its x or y ordinate below 0,
\* the failure is not swallowed: the plane's position is left unchanged and
\* that tick_planes call does not return the ongoing state with the plane still
\* in the mapping.
C20_BadMoveNotSwallowed ==
    [][call'[1] = "tick_planes" =>
         \A k \in ticked' \cap DOMAIN planes :
           LET q == [planes[k] EXCEPT !.ticks = @ + 1]
               ahead == OneCellAhead(planes[k].pos, planes[k].direction)
           IN (/\ ~out_of_fuel(q)
               /\ moves_this_tick(q)
               /\ (ahead.x < 0 \/ ahead.y < 0))
              => /\ advanced'[k].pos = planes[k].pos
                 /\ ~(ret' = Onging /\ k \in DOMAIN planes')]_vars

\* C21: tick_planes changes only plane state: after any tick_planes call,
\* whatever outcome it returns, the tile grid, the exit table and the plane-id
\* counter are the same as before the call.
C21_TickChangesOnlyPlanes ==
    [][call'[1] = "tick_planes" =>
         /\ tiles' = tiles
         /\ exits' = exits
         /\ plane_counter' = plane_counter]_vars

\* C21 witness: a tick_planes call removed the only plane through its exit, on
\* a level with an airport tile.
C21_Witness ==
    /\ call[1] = "tick_planes"
    /\ ret = Onging
    /\ advanced # EmptyMap
    /\ planes = EmptyMap
    /\ plane_counter = 1
    /\ exits # EmptyMap
    /\ tiles[Crossing.y][Crossing.x] = Airport("Right", 0)

C23_OnlyThreeOutcomes ==
    call[1] = "tick_planes" => ret[1] \in {"Onging", "PlaneNoFuel", "WrongExit"}

\* C23 witness: after a tick_planes call that returned the ongoing state two
\* planes, both past their grace, stand on the same cell of the bottom row,
\* and the level has no exit in the Down wall.
C23_Witness ==
    /\ call[1] = "tick_planes"
    /\ ret = Onging
    /\ \A e \in DOMAIN exits : exits[e].wall_direction # "Down"
    /\ \E j \in DOMAIN planes, k \in DOMAIN planes :
         /\ j # k
         /\ planes[j].pos = planes[k].pos
         /\ planes[j].pos.y = y - 1
         /\ ~planes[j].just_spawned
         /\ ~planes[k].just_spawned

\* C24: the plane mapping never holds more than 25 planes: a spawn whose
\* assigned letter is the key of a plane that is still in the mapping replaces
\* that plane, which disappears from the world without any outcome being
\* reported for it (the spawn returns Ok and the other planes are as before).
C24_LetterReuseReplaces ==
    [][/\ Cardinality(DOMAIN planes') <= Len(ORDER)
       /\ (call'[1] = "spawn_plane_at_exit" /\ call'[2] \in DOMAIN exits /\ ret' # Panic) =>
            LET key == ORDER[(plane_counter % Len(ORDER)) + 1] IN
            key \in DOMAIN planes =>
              /\ ret' = Ok
              /\ DOMAIN planes' = DOMAIN planes
              /\ planes'[key].kind = call'[3]
              /\ planes'[key].ticks = 0
              /\ \A j \in DOMAIN planes \ {key} : planes'[j] = planes[j]]_vars

\* C24 witness: the 26th spawn was given the letter of the first plane, a Jet
\* that was still in the mapping, and a Small plane is under that key now;
\* the mapping holds 25 planes.
C24_Witness ==
    /\ call[1] = "spawn_plane_at_exit"
    /\ ret = Ok
    /\ plane_counter = Len(ORDER) + 1
    /\ Cardinality(DOMAIN planes) = Len(ORDER)
    /\ planes["a"].kind = "Small"
    /\ \A k \in DOMAIN planes \ {"a"} : planes[k].kind = "Jet"

\* C25: no plane outlives its fuel. Every tick_planes call that returns the
\* ongoing state has ticked each plane that is still in the mapping exactly
\* once and leaves it with fewer ticks than its fuel ceiling; a plane is
\* spawned with 0 ticks, so it is not in the mapping across 120 (Jet) or 50
\* (Small) consecutive tick_planes calls that all return the ongoing state.
C25_NoPlaneOutlivesFuel ==
    [][(call'[1] = "tick_planes" /\ ret' = Onging) =>
         \A k \in DOMAIN planes' :
           /\ k \in DOMAIN planes
           /\ planes'[k].ticks = planes[k].ticks + 1
           /\ planes'[k].ticks < FuelCeiling(planes'[k].kind)]_vars

\* C25 witness: a tick_planes call returned the ongoing state and left a
\* Small plane one tick short of its fuel ceiling, with a younger plane in the
\* mapping as well.
C25_Witness ==
    /\ call[1] = "tick_planes"
    /\ ret = Onging
    /\ \E j \in DOMAIN planes, k \in DOMAIN planes :
         /\ planes[k].kind = "Small"
         /\ planes[k].ticks = SmallFuel - 1
         /\ planes[j].ticks \in 1..2

\* C26: every plane in the world has height 7 in every reachable state, so
\* under any sequence of spawn_plane_at_exit and tick_planes calls the landing
\* check never removes a plane and never raises a fault: no tick_planes call
\* panics, and no plane that its advance loop leaves is one the landing check
\* acts on (at height 0 on an Airport tile).
C26_NoPlaneLands ==
    /\ \A k \in DOMAIN planes : planes[k].height = START_HEIGHT
    /\ call[1] = "tick_planes" =>
         /\ ret # Panic
         /\ \A k \in DOMAIN advanced : advanced[k].height = START_HEIGHT
         /\ landing_planes(advanced, tiles, x, y) = {}

\* C26 witness: a tick_planes call returned the ongoing state with a plane on
\* the airport tile; the plane is bound for an exit and is still in the mapping.
C26_Witness ==
    /\ call[1] = "tick_planes"
    /\ ret = Onging
    /\ tiles[Crossing.y][Crossing.x][1] = "Airport"
    /\ \E k \in DOMAIN planes :
         /\ planes[k].pos = Crossing
         /\ planes[k].ticks > 0
         /\ planes[k].destination[1] = "Exit"

=============================================================================
